---- MODULE Spec2Model ----
(***************************************************************************)
(* Model of rules/old_series.go (package rules of infix): the read-only    *)
(* OldSeriesRule, its two constructors, its formaters and the terminal     *)
(* report written by End.                                                  *)
(*                                                                         *)
(* Strings that the code compares, sorts or writes byte by byte (storage   *)
(* keys, series identifiers, output lines) are sequences of byte values.   *)
(* Strings that the code only compares for equality with literals (format  *)
(* names, layouts, configuration fields) are TLA+ strings.                 *)
(***************************************************************************)
EXTENDS Integers, Sequences, FiniteSets, TLC

VARIABLES
    rule,       \* "none": nothing constructed; "ok": a *OldSeriesRule; "err": the constructor returned (nil, err)
    err,        \* the error the constructor returned ("nil" when none)
    unixNano,   \* OldSeriesRule.unixNano
    out,        \* OldSeriesRule.out: the destination the rule writes to
    series,     \* OldSeriesRule.series: map[string]int64
    formater,   \* OldSeriesRule.formater
    written,    \* the writes received by the destination `out`, in order
    logged,     \* the records printed through OldSeriesRule.logger: <<count, total>>
    files,      \* the files os.Create has created or truncated
    ret,        \* what the last Apply call returned
    flags,      \* what the last Flags call returned
    formatErr,  \* TRUE once a format call made by End has returned a non-nil error
    emitted,    \* the <<serie, timestamp>> pairs End has passed to the formater, in order
    unsorted,   \* TRUE once Apply has inserted a serie that sorts before one already in the map
    ended,      \* the driver has called End
    req,        \* the arguments the constructor was called with
    calls       \* the (key, values) pairs delivered to Apply so far

vars == <<rule, err, unixNano, out, series, formater, written, logged, files,
          ret, flags, formatErr, emitted, unsorted, ended, req, calls>>

\* Observations used by the specifications other than Spec, which leaves them alone.
VARIABLES
    lastOp,       \* the name of the last function or method called
    shardErr,     \* what the last EndShard call returned
    dirty,        \* TRUE when Apply has been called since the last End
    repeatEnds,   \* the End calls made right after an End, with no Apply in between
    lateApplies,  \* the Apply calls made after an End
    inflight,     \* per goroutine: the Apply call it is executing, and what it has read
    failedWrites  \* the writes to the destination that returned an error

hookObs == <<lastOp, shardErr>>
endObs == <<dirty, repeatEnds, lateApplies>>

aux == <<hookObs, endObs, inflight, failedWrites>>

allvars == <<vars, aux>>

(***************************************************************************)
(* Bounds of the model.                                                    *)
(***************************************************************************)
MaxTs == 2      \* value timestamps range over 0..MaxTs
MaxApply == 3   \* distinct (key, values) pairs delivered to one rule

Ts == 0 .. MaxTs

Min(S) == CHOOSE x \in S : \A y \in S : x <= y

Nil == "nil"
EmptyMap == [k \in {} |-> 0]

(***************************************************************************)
(* tsm1.SeriesAndFieldFromCompositeKey, the key decoder Apply calls: the   *)
(* series is what precedes the first "#!~#" of the key, the whole key when *)
(* the separator does not occur.                                           *)
(***************************************************************************)
keyFieldSeparator == <<35, 33, 126, 35>>    \* "#!~#"

Index(key, sep) ==
    LET hits == {i \in 1 .. Len(key) - Len(sep) + 1 :
                    SubSeq(key, i, i + Len(sep) - 1) = sep}
    IN  IF hits = {} THEN -1 ELSE Min(hits) - 1

SeriesAndFieldFromCompositeKey(key) ==
    LET sep == Index(key, keyFieldSeparator)
    IN  IF sep = -1
        THEN <<key, <<>>>>
        ELSE <<SubSeq(key, 1, sep),
               SubSeq(key, sep + Len(keyFieldSeparator) + 1, Len(key))>>

(***************************************************************************)
(* The inputs of Apply: composite keys and value blocks.  A value is       *)
(* modelled by its UnixNano(); a block is a non-empty sequence of values.  *)
(***************************************************************************)
CompositeKey(s, f) == s \o keyFieldSeparator \o f

SerieA == <<97>>            \* "a"
SerieB == <<98>>            \* "b"
SerieC == <<99>>            \* "c"
FieldX == <<120>>           \* "x"
FieldY == <<121>>           \* "y"

NoField == <<0>>            \* marks a key written without separator and field

\* the (serie, field) pairs the engine encodes into the keys it delivers
KeyInputs == { [serie |-> SerieB, field |-> FieldX],
               [serie |-> SerieA, field |-> FieldX],
               [serie |-> SerieA, field |-> FieldY],
               [serie |-> SerieC, field |-> NoField] }

EncodeKey(k) == IF k.field = NoField THEN k.serie ELSE CompositeKey(k.serie, k.field)

\* a one-value block, blocks in ascending order of time, and a block whose last
\* value is not its latest
Blocks == {<<1>>, <<MaxTs, 0>>} \cup {<<0, t>> : t \in 2 .. MaxTs}

(***************************************************************************)
(* formatTimestamp and the formaters.                                      *)
(***************************************************************************)
NoFormater == [kind |-> "none", withTimestamp |-> FALSE, timestampLayout |-> ""]

RECURSIVE Concat(_)
Concat(ss) == IF ss = <<>> THEN <<>> ELSE Head(ss) \o Concat(Tail(ss))

\* string(rune): the UTF-8 encoding of the code point, U+FFFD when it is not one
RuneString(n) ==
    IF n >= 0 /\ n < 128 THEN <<n>>
    ELSE IF n >= 128 /\ n < 2048 THEN <<192 + (n \div 64), 128 + (n % 64)>>
    ELSE IF (n >= 2048 /\ n < 55296) \/ (n >= 57344 /\ n < 65536)
         THEN <<224 + (n \div 4096), 128 + ((n \div 64) % 64), 128 + (n % 64)>>
    ELSE IF n >= 65536 /\ n < 1114112
         THEN <<240 + (n \div 262144), 128 + ((n \div 4096) % 64),
                128 + ((n \div 64) % 64), 128 + (n % 64)>>
    ELSE <<239, 191, 189>>

Digit(d) == 48 + d
TwoDigits(n) == <<Digit(n \div 10), Digit(n % 10)>>

\* time.Unix(0, unixNano) rendered in UTC, for the instants of the first minute
\* after the epoch (every timestamp of the model lies there)
FormatRFC3339(nano) ==
    <<49, 57, 55, 48, 45, 48, 49, 45, 48, 49, 84, 48, 48, 58, 48, 48, 58>>  \* "1970-01-01T00:00:"
        \o TwoDigits((nano \div 1000000000) % 60) \o <<90>>               \* "SSZ"

\* ts.Format(layout) for the layouts of the model
FormatLayout(nano, layout) ==
    IF layout = "2006" THEN <<49, 57, 55, 48>>      \* "1970"
    ELSE <<>>

EqualFoldRFC3339(layout) == layout \in {"RFC3339", "rfc3339", "Rfc3339"}

formatTimestamp(ts, layout) ==
    IF layout = "" THEN RuneString(ts)
    ELSE IF EqualFoldRFC3339(layout) THEN FormatRFC3339(ts)
    ELSE FormatLayout(ts, layout)

MutTextAlwaysTimestamp(f, serie, timestamp) ==
    [bytes |-> serie \o <<58, 32>> \o formatTimestamp(timestamp, f.timestampLayout) \o <<10>>,
     err |-> Nil]

textFormat(f, serie, timestamp) ==
    IF f.withTimestamp
    THEN [bytes |-> serie \o <<58, 32>> \o formatTimestamp(timestamp, f.timestampLayout) \o <<10>>,
          err |-> Nil]
    ELSE [bytes |-> serie \o <<10>>, err |-> Nil]

HexDigit(d) == IF d < 10 THEN 48 + d ELSE 87 + d

\* encoding/json's string encoder (HTML escaping on), on bytes below 128
JsonByte(b) ==
    IF b = 34 THEN <<92, 34>>
    ELSE IF b = 92 THEN <<92, 92>>
    ELSE IF b = 10 THEN <<92, 110>>
    ELSE IF b = 13 THEN <<92, 114>>
    ELSE IF b = 9 THEN <<92, 116>>
    ELSE IF b < 32 \/ b \in {60, 62, 38}
         THEN <<92, 117, 48, 48, HexDigit(b \div 16), HexDigit(b % 16)>>
    ELSE <<b>>

JsonString(s) == <<34>> \o Concat([i \in 1 .. Len(s) |-> JsonByte(s[i])]) \o <<34>>

\* json.Marshal of the map writes its keys in sorted order: "Serie", "Timestamp"
jsonFormatLine(data) ==
    [bytes |-> <<123>> \o <<34, 83, 101, 114, 105, 101, 34, 58>> \o JsonString(data.Serie)
                 \o (IF data.hasTimestamp
                     THEN <<44, 34, 84, 105, 109, 101, 115, 116, 97, 109, 112, 34, 58>>
                              \o JsonString(data.Timestamp)
                     ELSE <<>>)
                 \o <<125>> \o <<10>>,
     err |-> Nil]

jsonFormat(f, serie, timestamp) ==
    jsonFormatLine([Serie |-> serie,
                    hasTimestamp |-> f.withTimestamp,
                    Timestamp |-> IF f.withTimestamp
                                  THEN formatTimestamp(timestamp, f.timestampLayout)
                                  ELSE <<>>])

format(f, serie, timestamp) ==
    IF f.kind = "text" THEN textFormat(f, serie, timestamp)
    ELSE jsonFormat(f, serie, timestamp)

MutNewFormaterDefaultsToText(fmt, withTimestamp, timestampLayout) ==
    [formater |-> [kind |-> IF fmt = "json" THEN "json" ELSE "text",
                   withTimestamp |-> withTimestamp,
                   timestampLayout |-> timestampLayout],
     err |-> Nil]

newFormater(fmt, withTimestamp, timestampLayout) ==
    IF fmt = "text"
    THEN [formater |-> [kind |-> "text", withTimestamp |-> withTimestamp,
                        timestampLayout |-> timestampLayout],
          err |-> Nil]
    ELSE IF fmt = "json"
    THEN [formater |-> [kind |-> "json", withTimestamp |-> withTimestamp,
                        timestampLayout |-> timestampLayout],
          err |-> Nil]
    ELSE [formater |-> NoFormater, err |-> "Unknown format"]

(***************************************************************************)
(* Construction: NewOldSeriesRule and OldSerieRuleConfig.Build.            *)
(***************************************************************************)
NoReq == [via |-> "none", format |-> ""]

\* the instance newOldSeriesRule returns; t is the time as nanoseconds since the epoch
newOldSeriesRule(t, o, f) ==
    [unixNano |-> t \div 1, out |-> o, series |-> EmptyMap, formater |-> f]

FormatNames == {"text", "json", "xml", ""}

NewOldSeriesRule(t, o, fmt) ==
    LET nf == newFormater(fmt, FALSE, "")
    IN  /\ rule = "none"
        /\ req' = [via |-> "NewOldSeriesRule", format |-> fmt]
        /\ IF nf.err # Nil
           THEN /\ rule' = "err"
                /\ err' = nf.err
                /\ UNCHANGED <<unixNano, out, series, formater>>
           ELSE LET r == newOldSeriesRule(t, o, nf.formater)
                IN  /\ rule' = "ok"
                    /\ err' = Nil
                    /\ unixNano' = r.unixNano
                    /\ out' = r.out
                    /\ series' = r.series
                    /\ formater' = r.formater
        /\ UNCHANGED <<written, logged, files, ret, flags, formatErr, emitted,
                       unsorted, ended, calls>>

\* time.Parse(time.RFC3339, s) on the Time strings of the model
ParseRFC3339(s) ==
    IF s = "1970-01-01T00:00:00Z" THEN [err |-> Nil, nano |-> 0]
    ELSE IF s = "1970-01-01T00:00:00.000000001Z" THEN [err |-> Nil, nano |-> 1]
    ELSE [err |-> "parsing time", nano |-> 0]

\* the paths os.Create can create in the environment of the model
Creatable == {"out_file.log"}

BuildConfigs ==
    { [Time |-> "1970-01-01T00:00:00.000000001Z", Out |-> "", Format |-> "",
       Timestamp |-> FALSE, TimestampLayout |-> ""],
      [Time |-> "1970-01-01T00:00:00Z", Out |-> "stdout", Format |-> "json",
       Timestamp |-> TRUE, TimestampLayout |-> "RFC3339"],
      [Time |-> "1970-01-01T00:00:00.000000001Z", Out |-> "stderr", Format |-> "text",
       Timestamp |-> TRUE, TimestampLayout |-> ""],
      [Time |-> "1970-01-01T00:00:00.000000001Z", Out |-> "out_file.log", Format |-> "json",
       Timestamp |-> TRUE, TimestampLayout |-> "2006"],
      [Time |-> "1970-01-01T00:00:00.000000001Z", Out |-> "stdout", Format |-> "text",
       Timestamp |-> TRUE, TimestampLayout |-> "RFC3339"],
      [Time |-> "1970-01-01T00:00:00Z", Out |-> "out_file.log", Format |-> "xml",
       Timestamp |-> FALSE, TimestampLayout |-> ""],
      [Time |-> "1970-01-01T00:00:00Z", Out |-> "", Format |-> "xml",
       Timestamp |-> TRUE, TimestampLayout |-> "rfc3339"],
      [Time |-> "2020-01-01 00:08:00", Out |-> "out_file.log", Format |-> "text",
       Timestamp |-> TRUE, TimestampLayout |-> ""],
      [Time |-> "1970-01-01T00:00:00Z", Out |-> "/nonexistent/out.log", Format |-> "json",
       Timestamp |-> FALSE, TimestampLayout |-> ""] }

Build(c) ==
    LET parsed == ParseRFC3339(c.Time)
        opens  == c.Out \notin {"", "stdout", "stderr"}
        o      == IF c.Out = "" THEN "stdout"
                  ELSE IF c.Out = "stdout" THEN "stdout"
                  ELSE IF c.Out = "stderr" THEN "stderr"
                  ELSE c.Out
        fmt    == IF c.Format # "" THEN c.Format ELSE "text"
        nf     == newFormater(fmt, c.Timestamp, c.TimestampLayout)
    IN  /\ rule = "none"
        /\ req' = [via |-> "Build", format |-> c.Format]
        /\ IF parsed.err # Nil
           THEN /\ rule' = "err"
                /\ err' = parsed.err
                /\ UNCHANGED <<unixNano, out, series, formater, files>>
           ELSE IF opens /\ c.Out \notin Creatable
           THEN /\ rule' = "err"
                /\ err' = "open"
                /\ UNCHANGED <<unixNano, out, series, formater, files>>
           ELSE /\ files' = IF opens THEN files \cup {c.Out} ELSE files
                /\ IF nf.err # Nil
                   THEN /\ rule' = "err"
                        /\ err' = nf.err
                        /\ UNCHANGED <<unixNano, out, series, formater>>
                   ELSE LET r == newOldSeriesRule(parsed.nano, o, nf.formater)
                        IN  /\ rule' = "ok"
                            /\ err' = Nil
                            /\ unixNano' = r.unixNano
                            /\ out' = r.out
                            /\ series' = r.series
                            /\ formater' = r.formater
        /\ UNCHANGED <<written, logged, ret, flags, formatErr, emitted,
                       unsorted, ended, calls>>

(***************************************************************************)
(* Apply.                                                                  *)
(***************************************************************************)
UnixNano(v) == v

MutSeriesKeyIsKey(key) == key

\* seriesKey, _ := tsm1.SeriesAndFieldFromCompositeKey(key)
SeriesKey(key) == SeriesAndFieldFromCompositeKey(key)[1]

Put(m, s, v) == [k \in DOMAIN m \cup {s} |-> IF k = s THEN v ELSE m[k]]

MutApplyOverwrites(m, key, values) ==
    Put(m, SeriesKey(key), UnixNano(values[Len(values)]))

MutApplyKeepsLower(m, key, values) ==
    LET s == SeriesKey(key)
        maxTs == UnixNano(values[Len(values)])
    IN  IF s \in DOMAIN m
        THEN IF maxTs < m[s] THEN Put(m, s, maxTs) ELSE m
        ELSE Put(m, s, maxTs)

MutApplyKeepsFirst(m, key, values) ==
    LET s == SeriesKey(key)
    IN  IF s \in DOMAIN m THEN m ELSE Put(m, s, UnixNano(values[Len(values)]))

MutApplyTakesBlockMax(m, key, values) ==
    LET s == SeriesKey(key)
        maxTs == CHOOSE x \in {UnixNano(values[i]) : i \in DOMAIN values} :
                    \A i \in DOMAIN values : x >= UnixNano(values[i])
    IN  IF s \in DOMAIN m
        THEN IF maxTs > m[s] THEN Put(m, s, maxTs) ELSE m
        ELSE Put(m, s, maxTs)

\* r.series after Apply(key, values) on a rule whose map is m
ApplySeries(m, key, values) ==
    LET seriesKey == SeriesKey(key)
        maxTs == UnixNano(values[Len(values)])
        s == seriesKey
    IN  IF s \in DOMAIN m
        THEN IF maxTs > m[s] THEN Put(m, s, maxTs) ELSE m
        ELSE Put(m, s, maxTs)

\* a slice result: the nil slice, or a slice with elements
NilSlice == [nil |-> TRUE, elems |-> <<>>]
Slice(elems) == [nil |-> FALSE, elems |-> elems]

MutApplyReturnsInput(key, values) ==
    [newKey |-> Slice(key), newValues |-> Slice(values), err |-> Nil]

\* the (key, values, error) triple Apply returns
ApplyReturn(key, values) == [newKey |-> NilSlice, newValues |-> NilSlice, err |-> Nil]

\* Go's < on strings: bytewise lexicographic
StrLess(a, b) ==
    LET n == IF Len(a) < Len(b) THEN Len(a) ELSE Len(b)
        diff == {i \in 1 .. n : a[i] # b[i]}
    IN  IF diff = {} THEN Len(a) < Len(b) ELSE a[Min(diff)] < b[Min(diff)]

\* the record of one delivery: what the engine encoded into the key, and the block
Delivered(k, values) == [serie |-> k.serie, field |-> k.field, values |-> values]

Apply(k, values) ==
    LET key == EncodeKey(k)
        s == SeriesKey(key)
    IN  /\ rule = "ok"
        /\ series' = ApplySeries(series, key, values)
        /\ ret' = ApplyReturn(key, values)
        /\ calls' = calls \cup {Delivered(k, values)}
        /\ unsorted' = (unsorted \/ (s \notin DOMAIN series
                                       /\ \E x \in DOMAIN series : StrLess(s, x)))
        /\ UNCHANGED <<rule, err, unixNano, out, formater, written, logged, files,
                       flags, formatErr, emitted, ended, req>>

(***************************************************************************)
(* End: the terminal report.                                               *)
(***************************************************************************)
\* the orders in which `for k := range r.series` can deliver the keys of the map
RECURSIVE KeyOrders(_)
KeyOrders(S) ==
    IF S = {} THEN {<<>>}
    ELSE UNION {{<<k>> \o ks : ks \in KeyOrders(S \ {k})} : k \in S}

InsertSorted(x, sorted) ==
    LET after == {i \in 1 .. Len(sorted) : StrLess(x, sorted[i])}
        p == IF after = {} THEN Len(sorted) + 1 ELSE Min(after)
    IN  SubSeq(sorted, 1, p - 1) \o <<x>> \o SubSeq(sorted, p, Len(sorted))

MutNoSort(keys) == keys

RECURSIVE SortStrings(_)
SortStrings(keys) ==
    IF keys = <<>> THEN <<>>
    ELSE InsertSorted(keys[Len(keys)], SortStrings(SubSeq(keys, 1, Len(keys) - 1)))

MutIsOldStrict(maxTs, threshold) == maxTs < threshold

IsOld(maxTs, threshold) == maxTs <= threshold

\* the loop of End over keys[i..]: acc is what the iterations before i have done
RECURSIVE EndLoop(_, _, _)
EndLoop(keys, i, acc) ==
    IF i > Len(keys) THEN acc
    ELSE LET key == keys[i]
             maxTs == series[key]
         IN  IF IsOld(maxTs, unixNano)
             THEN LET f == format(formater, key, maxTs)
                  IN  EndLoop(keys, i + 1,
                              [writes |-> Append(acc.writes, f.bytes),
                               emitted |-> Append(acc.emitted, <<key, maxTs>>),
                               formatErr |-> acc.formatErr \/ f.err # Nil,
                               count |-> acc.count + 1])
             ELSE EndLoop(keys, i + 1, acc)

MutEndCountsAll(keys) ==
    LET r == EndLoop(keys, 1, [writes |-> <<>>, emitted |-> <<>>, formatErr |-> FALSE, count |-> 0])
    IN  [r EXCEPT !.count = Len(keys)] @@ [log |-> <<Len(keys), Len(keys)>>]

MutEndWritesSummary(keys) ==
    LET r == EndLoop(keys, 1, [writes |-> <<>>, emitted |-> <<>>, formatErr |-> FALSE, count |-> 0])
    IN  [r EXCEPT !.writes = Append(@, <<r.count, Len(keys)>>)] @@ [log |-> <<r.count, Len(keys)>>]

\* what End does with the sorted keys: the writes to r.out and the record it logs
EndReport(keys) ==
    LET r == EndLoop(keys, 1, [writes |-> <<>>, emitted |-> <<>>, formatErr |-> FALSE, count |-> 0])
    IN  r @@ [log |-> <<r.count, Len(keys)>>]

MutEndResets ==
    /\ rule = "ok"
    /\ \E keys \in KeyOrders(DOMAIN series) :
          LET r == EndReport(SortStrings(keys))
          IN  /\ written' = written \o r.writes
              /\ emitted' = emitted \o r.emitted
              /\ formatErr' = (formatErr \/ r.formatErr)
              /\ logged' = Append(logged, r.log)
    /\ ended' = TRUE
    /\ series' = EmptyMap
    /\ UNCHANGED <<rule, err, unixNano, out, formater, files, ret, flags,
                   unsorted, req, calls>>

End ==
    /\ rule = "ok"
    /\ \E keys \in KeyOrders(DOMAIN series) :
          LET r == EndReport(SortStrings(keys))
          IN  /\ written' = written \o r.writes
              /\ emitted' = emitted \o r.emitted
              /\ formatErr' = (formatErr \/ r.formatErr)
              /\ logged' = Append(logged, r.log)
    /\ ended' = TRUE
    /\ UNCHANGED <<rule, err, unixNano, out, series, formater, files, ret, flags,
                   unsorted, req, calls>>

(***************************************************************************)
(* The other methods of the Rule interface.                                *)
(***************************************************************************)
MutFlagsStandard == "Standard"

MutStartResets ==
    /\ rule = "ok"
    /\ series' = EmptyMap
    /\ UNCHANGED <<rule, err, unixNano, out, formater, written, logged, files,
                   ret, flags, formatErr, emitted, unsorted, ended, req, calls>>

FlagsValue == "TSMReadOnly"

Flags ==
    /\ rule = "ok"
    /\ flags' = FlagsValue
    /\ UNCHANGED <<rule, err, unixNano, out, series, formater, written, logged, files,
                   ret, formatErr, emitted, unsorted, ended, req, calls>>

CheckMode(check) == rule = "ok" /\ UNCHANGED vars
WithLogger == rule = "ok" /\ UNCHANGED vars
Start == rule = "ok" /\ UNCHANGED vars
StartShard == rule = "ok" /\ UNCHANGED vars
EndShard == rule = "ok" /\ UNCHANGED vars
StartTSM == rule = "ok" /\ UNCHANGED vars
EndTSM == rule = "ok" /\ UNCHANGED vars
StartWAL == rule = "ok" /\ UNCHANGED vars
EndWAL == rule = "ok" /\ UNCHANGED vars
PrintSeries == rule = "ok" /\ UNCHANGED vars

(***************************************************************************)
(* The program: one rule is constructed; the driver delivers the blocks    *)
(* to Apply, calls the hooks in any order and calls End once, after the    *)
(* last Apply.                                                             *)
(***************************************************************************)
Goroutines == {1, 2}

\* a goroutine that is not inside Apply
Idle == [pc |-> "idle", serie |-> <<>>, maxTs |-> 0, ok |-> FALSE, ts |-> 0]

Init ==
    /\ rule = "none"
    /\ err = Nil
    /\ unixNano = 0
    /\ out = "none"
    /\ series = EmptyMap
    /\ formater = NoFormater
    /\ written = <<>>
    /\ logged = <<>>
    /\ files = {}
    /\ ret = [newKey |-> Slice(<<>>), newValues |-> Slice(<<>>), err |-> "unset"]
    /\ flags = "unset"
    /\ formatErr = FALSE
    /\ emitted = <<>>
    /\ unsorted = FALSE
    /\ ended = FALSE
    /\ req = NoReq
    /\ calls = {}
    /\ lastOp = "none"
    /\ shardErr = "unset"
    /\ dirty = FALSE
    /\ repeatEnds = 0
    /\ lateApplies = 0
    /\ inflight = [g \in Goroutines |-> Idle]
    /\ failedWrites = 0

Next ==
    \/ UNCHANGED aux /\ \E t \in Ts, fmt \in FormatNames : NewOldSeriesRule(t, "writer", fmt)
    \/ UNCHANGED aux /\ \E c \in BuildConfigs : Build(c)
    \/ UNCHANGED aux /\ \E k \in KeyInputs, values \in Blocks :
          /\ ~ended
          /\ Cardinality(calls \cup {Delivered(k, values)}) <= MaxApply
          /\ Apply(k, values)
    \/ UNCHANGED aux /\ ~ended /\ End
    \/ UNCHANGED aux /\ Flags
    \/ UNCHANGED aux /\ \E check \in BOOLEAN : CheckMode(check)
    \/ UNCHANGED aux /\ WithLogger
    \/ UNCHANGED aux /\ Start
    \/ UNCHANGED aux /\ StartShard
    \/ UNCHANGED aux /\ EndShard
    \/ UNCHANGED aux /\ StartTSM
    \/ UNCHANGED aux /\ EndTSM
    \/ UNCHANGED aux /\ StartWAL
    \/ UNCHANGED aux /\ EndWAL
    \/ UNCHANGED aux /\ PrintSeries

Spec == Init /\ [][Next]_allvars

(***************************************************************************)
(* Properties.                                                             *)
(***************************************************************************)
Max(S) == CHOOSE x \in S : \A y \in S : x >= y

\* the candidate maximum of a delivery: the timestamp of the last value of its block
CandidateMax(c) == c.values[Len(c.values)]

\* the deliveries whose key was encoded from serie s
DeliveriesOf(s) == {c \in calls : c.serie = s}

ObservedSeries == {c.serie : c \in calls}

StaleSeries == {s \in DOMAIN series : series[s] <= unixNano}

EmittedSeries == {emitted[i][1] : i \in DOMAIN emitted}

\* byte order on series identifiers
LexBefore(a, b) ==
    \/ \E i \in 1 .. Len(a) :
          /\ i <= Len(b)
          /\ a[i] < b[i]
          /\ \A j \in 1 .. i - 1 : a[j] = b[j]
    \/ /\ Len(a) < Len(b)
       /\ \A j \in 1 .. Len(a) : a[j] = b[j]

IsPrefix(p, line) == Len(p) <= Len(line) /\ SubSeq(line, 1, Len(p)) = p

\* line is one line of the report, and the line of serie s
LineOf(line, s) ==
    /\ Len(line) > 0
    /\ line[Len(line)] = 10
    /\ \A i \in 1 .. Len(line) - 1 : line[i] # 10
    /\ IF formater.kind = "text"
       THEN IsPrefix(s \o <<10>>, line) \/ IsPrefix(s \o <<58, 32>>, line)
       ELSE IsPrefix(<<123, 34, 83, 101, 114, 105, 101, 34, 58, 34>> \o s \o <<34>>, line)

\* C1: the value stored for every series is the maximum of the candidate maxima
\* of the deliveries whose key decodes to it, and only observed series are stored.
C1_MonotonicAccumulation ==
    /\ DOMAIN series = ObservedSeries
    /\ \A s \in ObservedSeries :
          series[s] = Max({CandidateMax(c) : c \in DeliveriesOf(s)})

C1_Witness ==
    \E s \in DOMAIN series : \E c1, c2 \in DeliveriesOf(s) :
        /\ CandidateMax(c1) < CandidateMax(c2)
        /\ series[s] = CandidateMax(c2)
        /\ Cardinality(ObservedSeries) > 1

\* C2: End passes a series to the formater if and only if its last-seen
\* timestamp is at most the threshold, and with that timestamp.
C2_ThresholdInclusive ==
    ended =>
        /\ \A s \in DOMAIN series : (s \in EmittedSeries) <=> (series[s] <= unixNano)
        /\ \A i \in DOMAIN emitted :
              /\ emitted[i][2] <= unixNano
              /\ emitted[i][1] \in DOMAIN series
              /\ emitted[i][2] = series[emitted[i][1]]
        /\ Len(written) = Len(emitted)
        /\ \A i \in DOMAIN written : LineOf(written[i], emitted[i][1])

C2_Witness ==
    /\ ended
    /\ \E s \in DOMAIN series : series[s] = unixNano /\ s \in EmittedSeries
    /\ \E s \in DOMAIN series : series[s] = unixNano + 1 /\ s \notin EmittedSeries

\* C3: the lines of the report are in strictly ascending byte order of their
\* series identifiers.
C3_SortedReport ==
    ended =>
        /\ \A i, j \in DOMAIN emitted :
              i < j => LexBefore(emitted[i][1], emitted[j][1])
        /\ Len(written) = Len(emitted)
        /\ \A i, j \in DOMAIN written :
              i < j => \E a, b \in DOMAIN series :
                          /\ LineOf(written[i], a)
                          /\ LineOf(written[j], b)
                          /\ LexBefore(a, b)

C3_Witness ==
    /\ ended
    /\ unsorted
    /\ Len(written) = 3
    /\ emitted[1][1] = SerieA /\ emitted[2][1] = SerieB /\ emitted[3][1] = SerieC

\* C4: every Apply call returns (nil, nil, nil) and Flags returns TSMReadOnly.
C4_ReadOnly ==
    /\ calls # {} => /\ ret.newKey.nil
                     /\ ret.newValues.nil
                     /\ ret.err = "nil"
    /\ flags \in {"unset", "TSMReadOnly"}

C4_Witness ==
    /\ Cardinality(calls) > 1
    /\ ret.err = "nil"
    /\ flags = "TSMReadOnly"

\* C5: deliveries for one series under different fields share one entry of the
\* map; the map has one entry per observed series and no key holds a field.
C5_FieldCoalescing ==
    /\ Cardinality(DOMAIN series) = Cardinality(ObservedSeries)
    /\ \A c \in calls :
          /\ c.serie \in DOMAIN series
          /\ series[c.serie] >= CandidateMax(c)
    /\ \A k \in DOMAIN series : Index(k, keyFieldSeparator) = -1

C5_Witness ==
    \E c1, c2 \in calls :
        /\ c1.serie = c2.serie
        /\ c1.field # c2.field
        /\ CandidateMax(c1) < CandidateMax(c2)
        /\ series[c1.serie] = CandidateMax(c2)
        /\ Cardinality(DOMAIN series) = 1

\* C6: no step removes an entry of the map or lowers a stored value.
C6_NeverShrinks ==
    [][\A s \in DOMAIN series : s \in DOMAIN series' /\ series'[s] >= series[s]]_allvars

C6_Witness ==
    \E c \in calls : CandidateMax(c) < series[c.serie]

\* C7: End logs one record <<M, N>>: M the number of series at or below the
\* threshold, which is the number of lines written, and N the number of
\* distinct series observed.
C7_SummaryCount ==
    ended =>
        /\ logged = << <<Cardinality(StaleSeries), Cardinality(DOMAIN series)>> >>
        /\ Len(written) = Cardinality(StaleSeries)
        /\ Cardinality(DOMAIN series) = Cardinality(ObservedSeries)

C7_Witness ==
    /\ ended
    /\ logged = << <<2, 3>> >>

\* the maps a rule holding m can hold after the deliveries of S, over every
\* order of delivering them
RECURSIVE Replays(_, _)
Replays(m, S) ==
    IF S = {} THEN {m}
    ELSE UNION {Replays(ApplySeries(m, EncodeKey([serie |-> c.serie, field |-> c.field]),
                                    c.values),
                        S \ {c}) : c \in S}

\* C8: every order of delivery of the same calls yields the map the rule holds,
\* and the report does not depend on the order the map's keys are collected in.
C8_OrderIndependent ==
    /\ Replays(EmptyMap, calls) = {series}
    /\ ended =>
          \A keys \in {SortStrings(ks) : ks \in KeyOrders(DOMAIN series)} :
              LET r == EndReport(keys)
              IN  /\ written = r.writes
                  /\ emitted = r.emitted
                  /\ logged = <<r.log>>

C8_Witness ==
    /\ ended
    /\ unsorted
    /\ Cardinality(calls) = 3
    /\ Cardinality(DOMAIN series) = 2
    /\ \E c1, c2 \in calls : c1.serie = c2.serie /\ CandidateMax(c1) # CandidateMax(c2)
    /\ written # <<>>

\* the format name the constructor selects the formater by: Build selects by
\* "text" when the Format field of the configuration is empty
RequestedFormat == IF req.via = "Build" /\ req.format = "" THEN "text" ELSE req.format

\* C9: a constructor called with a format name other than "text" and "json"
\* returns an error and no rule, so nothing is ever applied or formatted; a rule
\* that was constructed has a text or json formater and its format calls never fail.
C9_UnknownFormatRejected ==
    /\ (rule # "none" /\ RequestedFormat \notin {"text", "json"}) =>
          /\ rule = "err"
          /\ err # "nil"
          /\ formater = NoFormater
          /\ series = EmptyMap
          /\ calls = {}
          /\ ~ended
          /\ written = <<>>
    /\ rule = "ok" => formater.kind \in {"text", "json"}
    /\ ~formatErr

C9_Witness ==
    /\ rule = "err"
    /\ req.via = "Build"
    /\ req.format = "xml"
    /\ err = "Unknown format"

\* C10: the destination receives nothing before End, and from End exactly one
\* line for each series at or below the threshold and nothing else.
C10_EmittedStream ==
    /\ ~ended => written = <<>>
    /\ ended =>
          /\ Len(written) = Cardinality(StaleSeries)
          /\ \A s \in StaleSeries :
                Cardinality({i \in DOMAIN written : LineOf(written[i], s)}) = 1
          /\ \A i \in DOMAIN written : \E s \in StaleSeries : LineOf(written[i], s)

C10_Witness ==
    /\ ended
    /\ Len(written) = 2
    /\ DOMAIN series # StaleSeries
    /\ flags = "TSMReadOnly"

\* C12: a text formater without timestamps writes the series and a newline, one
\* with timestamps the series, ": ", the rendered timestamp and a newline; the
\* lines of a rule made by NewOldSeriesRule hold no timestamp.
C12_TextLineShape ==
    /\ (ended /\ formater.kind = "text") =>
          /\ Len(written) = Len(emitted)
          /\ \A i \in DOMAIN written :
                written[i] =
                    IF formater.withTimestamp
                    THEN emitted[i][1] \o <<58, 32>>
                            \o formatTimestamp(emitted[i][2], formater.timestampLayout)
                            \o <<10>>
                    ELSE emitted[i][1] \o <<10>>
    /\ (rule = "ok" /\ req.via = "NewOldSeriesRule") =>
          /\ ~formater.withTimestamp
          /\ \A i \in DOMAIN written :
                written[i] =
                    IF formater.kind = "text"
                    THEN emitted[i][1] \o <<10>>
                    ELSE <<123, 34, 83, 101, 114, 105, 101, 34, 58, 34>>    \* {"Serie":"
                            \o emitted[i][1] \o <<34, 125, 10>>

C12_Witness ==
    /\ ended
    /\ formater.kind = "text"
    /\ formater.withTimestamp
    /\ formater.timestampLayout = "RFC3339"
    /\ Len(written) = 2
    /\ written[1] = SerieA \o <<58, 32>> \o FormatRFC3339(1) \o <<10>>

NonDecreasing(b) == \A i \in 1 .. Len(b) - 1 : b[i] <= b[i + 1]

Elements(b) == {b[i] : i \in DOMAIN b}

\* C14: the value stored for a series is the timestamp of the last value of one of
\* its blocks: the latest timestamp of its blocks when they are in ascending order
\* of time, the last value's timestamp of its only block even when that is not the
\* block's latest; what precedes the last value of a block has no effect on Apply.
C14_CandidateIsLast ==
    /\ \A s \in DOMAIN series :
          LET D == DeliveriesOf(s)
          IN  /\ series[s] \in {c.values[Len(c.values)] : c \in D}
              /\ (\A c \in D : NonDecreasing(c.values)) =>
                    series[s] = Max(UNION {Elements(c.values) : c \in D})
              /\ \A c \in D : D = {c} => series[s] = c.values[Len(c.values)]
    /\ \A k \in KeyInputs, a, b \in Ts :
          a > b =>
             ApplySeries(series, EncodeKey(k), <<a, b>>) = ApplySeries(series, EncodeKey(k), <<b>>)

C14_Witness ==
    /\ \E c \in calls :
          /\ DeliveriesOf(c.serie) = {c}
          /\ c.values = <<MaxTs, 0>>
          /\ series[c.serie] = 0
    /\ \E c \in calls :
          /\ c.values = <<0, MaxTs>>
          /\ series[c.serie] = MaxTs

\* C15: when Build has returned an error, no file has been created or truncated.
C15_FailedBuildLeavesNoFile ==
    (rule = "err" /\ req.via = "Build") => files = {}

(***************************************************************************)
(* The methods of the Rule interface called in any order, before and after *)
(* End, inside and outside a shard or a segment.                           *)
(***************************************************************************)
MaxHookApply == 2   \* distinct (key, values) pairs delivered under SpecHooks

\* the error EndShard returns
EndShardReturn == "nil"

HookNames == {"CheckMode", "WithLogger", "Start", "StartShard", "EndShard",
              "StartTSM", "EndTSM", "StartWAL", "EndWAL", "Print"}

\* the call named name: it is the step A
Called(name, A) ==
    /\ A
    /\ lastOp' = name
    /\ shardErr' = IF name = "EndShard" THEN EndShardReturn ELSE shardErr
    /\ UNCHANGED <<endObs, inflight, failedWrites>>

NextHooks ==
    \/ \E t \in Ts, fmt \in FormatNames :
          Called("NewOldSeriesRule", NewOldSeriesRule(t, "writer", fmt))
    \/ \E k \in KeyInputs, values \in {<<1>>, <<MaxTs, 0>>} :
          /\ ~ended
          /\ Cardinality(calls \cup {Delivered(k, values)}) <= MaxHookApply
          /\ Called("Apply", Apply(k, values))
    \/ ~ended /\ Called("End", End)
    \/ Called("Flags", Flags)
    \/ \E check \in BOOLEAN : Called("CheckMode", CheckMode(check))
    \/ Called("WithLogger", WithLogger)
    \/ Called("Start", Start)
    \/ Called("StartShard", StartShard)
    \/ Called("EndShard", EndShard)
    \/ Called("StartTSM", StartTSM)
    \/ Called("EndTSM", EndTSM)
    \/ Called("StartWAL", StartWAL)
    \/ Called("EndWAL", EndWAL)
    \/ Called("Print", PrintSeries)

SpecHooks == Init /\ [][NextHooks]_allvars

MaxRaceApply == 3   \* distinct (key, values) pairs delivered under SpecConcurrent

\* lines 206-210: decode the key, take the candidate, read the map
ApplyEnter(g, k, values) ==
    LET key == EncodeKey(k)
        s == SeriesKey(key)
    IN  /\ rule = "ok"
        /\ inflight[g].pc = "idle"
        /\ inflight' = [inflight EXCEPT ![g] =
                            [pc |-> "read",
                             serie |-> s,
                             maxTs |-> UnixNano(values[Len(values)]),
                             ok |-> s \in DOMAIN series,
                             ts |-> IF s \in DOMAIN series THEN series[s] ELSE 0]]
        /\ calls' = calls \cup {Delivered(k, values)}
        /\ lastOp' = "Apply"
        /\ UNCHANGED <<rule, err, unixNano, out, series, formater, written, logged, files,
                       ret, flags, formatErr, emitted, unsorted, ended, req>>
        /\ UNCHANGED <<shardErr, endObs, failedWrites>>

\* lines 210-218: compare with what was read, write the map, return
ApplyExit(g) ==
    LET l == inflight[g]
    IN  /\ rule = "ok"
        /\ l.pc = "read"
        /\ series' = IF l.ok
                     THEN IF l.maxTs > l.ts THEN Put(series, l.serie, l.maxTs) ELSE series
                     ELSE Put(series, l.serie, l.maxTs)
        /\ ret' = ApplyReturn(<<>>, <<>>)
        /\ inflight' = [inflight EXCEPT ![g] = Idle]
        /\ UNCHANGED <<rule, err, unixNano, out, formater, written, logged, files,
                       flags, formatErr, emitted, unsorted, ended, req, calls>>
        /\ UNCHANGED <<hookObs, endObs, failedWrites>>

\* the runtime's "fatal error: concurrent map read and map write": the program ends
ConcurrentMapFault ==
    /\ rule = "ok"
    /\ \A g \in Goroutines : inflight[g].pc = "read"
    /\ rule' = "fatal"
    /\ UNCHANGED <<err, unixNano, out, series, formater, written, logged, files,
                   ret, flags, formatErr, emitted, unsorted, ended, req, calls>>
    /\ UNCHANGED aux

NextConcurrent ==
    \/ \E t \in Ts :
          /\ NewOldSeriesRule(t, "writer", "text")
          /\ UNCHANGED aux
    \/ \E g \in Goroutines, k \in KeyInputs, values \in Blocks :
          /\ Cardinality(calls \cup {Delivered(k, values)}) <= MaxRaceApply
          /\ ApplyEnter(g, k, values)
    \/ \E g \in Goroutines : ApplyExit(g)
    \/ ConcurrentMapFault

SpecConcurrent == Init /\ [][NextConcurrent]_allvars

\* C13: when every Apply call of the two goroutines has returned, the value stored
\* for each series is the maximum of the candidate maxima delivered for it.
C13_ConcurrentAccumulation ==
    (rule = "ok" /\ \A g \in Goroutines : inflight[g].pc = "idle") =>
        /\ DOMAIN series = ObservedSeries
        /\ \A s \in ObservedSeries :
              series[s] = Max({CandidateMax(c) : c \in DeliveriesOf(s)})

(***************************************************************************)
(* End called more than once, and Apply called after End.                  *)
(***************************************************************************)
MaxEnd == 2         \* End calls under SpecReEnd
MaxReApply == 2     \* distinct (key, values) pairs, and Apply calls after an End, under SpecReEnd

NextReEnd ==
    \/ \E t \in Ts, fmt \in {"text", "json"} :
          /\ NewOldSeriesRule(t, "writer", fmt)
          /\ UNCHANGED aux
    \/ \E k \in KeyInputs, values \in Blocks :
          /\ Cardinality(calls \cup {Delivered(k, values)}) <= MaxReApply
          /\ lateApplies < MaxReApply
          /\ Apply(k, values)
          /\ dirty' = TRUE
          /\ lateApplies' = IF ended THEN lateApplies + 1 ELSE lateApplies
          /\ UNCHANGED <<hookObs, repeatEnds, inflight, failedWrites>>
    \/ /\ Len(logged) < MaxEnd
       /\ End
       /\ dirty' = FALSE
       /\ repeatEnds' = IF ended /\ ~dirty THEN repeatEnds + 1 ELSE repeatEnds
       /\ UNCHANGED <<hookObs, lateApplies, inflight, failedWrites>>

SpecReEnd == Init /\ [][NextReEnd]_allvars

\* a step in which End has run
EndStep == Len(logged') = Len(logged) + 1

\* what the step has appended to a sequence
Appended(before, after) == SubSeq(after, Len(before) + 1, Len(after))

\* the last n elements of a sequence
LastOf(seq, n) == SubSeq(seq, Len(seq) - n + 1, Len(seq))

\* C16: End changes neither the map nor the threshold; an End that follows an End
\* with no Apply in between writes the lines the first wrote, in their order, and
\* logs the same counts; and the map holds the maximum of the candidates of all
\* deliveries, those made after an End included.
C16_EndOnlyReads ==
    /\ [][EndStep => UNCHANGED <<rule, unixNano, out, series, formater>>]_allvars
    /\ [][(EndStep /\ ended /\ ~dirty) =>
             LET n == logged[Len(logged)][1]
             IN  /\ logged'[Len(logged')] = logged[Len(logged)]
                 /\ Appended(written, written') = LastOf(written, n)
                 /\ Appended(emitted, emitted') = LastOf(emitted, n)]_allvars
    /\ [](/\ DOMAIN series = ObservedSeries
          /\ \A s \in ObservedSeries :
                \A c \in DeliveriesOf(s) :
                    /\ series[s] >= CandidateMax(c)
                    /\ \E d \in DeliveriesOf(s) : series[s] = CandidateMax(d))

C16_Witness ==
    /\ repeatEnds > 0
    /\ lateApplies > 0
    /\ Len(logged) = 2
    /\ logged[1] = logged[2]
    /\ Len(written) = 2
    /\ Cardinality(DOMAIN series) = 2

(***************************************************************************)
(* End with format calls that fail.  End discards what format returns      *)
(* (line 167), and format discards what Fprintf returns (lines 43, 45 and  *)
(* 79), so each format call of End either writes its line, or fails to     *)
(* write it, or returns an error before writing (line 76).                 *)
(***************************************************************************)
MaxIOApply == 3     \* distinct (key, values) pairs delivered under SpecIO

Outcomes == {"written", "writeFailed", "formatError"}

\* the lines that reach the destination
RECURSIVE Reaching(_, _, _)
Reaching(writes, outcome, i) ==
    IF i > Len(writes) THEN <<>>
    ELSE (IF outcome[i] = "written" THEN <<writes[i]>> ELSE <<>>)
             \o Reaching(writes, outcome, i + 1)

Failures(outcome) == Cardinality({i \in DOMAIN outcome : outcome[i] # "written"})

MutEndStopsAtFailedWrite(outcome) ==
    /\ rule = "ok"
    /\ \E keys \in KeyOrders(DOMAIN series) :
          LET r == EndReport(SortStrings(keys))
              bad == {i \in DOMAIN outcome : outcome[i] # "written"}
              n == IF bad = {} THEN r.count ELSE Min(bad)
          IN  /\ DOMAIN outcome = 1 .. r.count
              /\ written' = written \o Reaching(SubSeq(r.writes, 1, n), outcome, 1)
              /\ emitted' = emitted \o SubSeq(r.emitted, 1, n)
              /\ formatErr' = (formatErr \/ \E i \in DOMAIN outcome : outcome[i] = "formatError")
              /\ logged' = Append(logged, <<n, Len(keys)>>)
    /\ ended' = TRUE
    /\ failedWrites' = failedWrites + Failures(outcome)
    /\ UNCHANGED <<rule, err, unixNano, out, series, formater, files, ret, flags,
                   unsorted, req, calls>>
    /\ UNCHANGED <<hookObs, endObs, inflight>>

EndWith(outcome) ==
    /\ rule = "ok"
    /\ \E keys \in KeyOrders(DOMAIN series) :
          LET r == EndReport(SortStrings(keys))
          IN  /\ DOMAIN outcome = 1 .. r.count
              /\ written' = written \o Reaching(r.writes, outcome, 1)
              /\ emitted' = emitted \o r.emitted
              /\ formatErr' = (formatErr \/ \E i \in DOMAIN outcome : outcome[i] = "formatError")
              /\ logged' = Append(logged, r.log)
    /\ ended' = TRUE
    /\ failedWrites' = failedWrites + Failures(outcome)
    /\ UNCHANGED <<rule, err, unixNano, out, series, formater, files, ret, flags,
                   unsorted, req, calls>>
    /\ UNCHANGED <<hookObs, endObs, inflight>>

NextIO ==
    \/ \E t \in Ts, fmt \in {"text", "json"} :
          /\ NewOldSeriesRule(t, "writer", fmt)
          /\ UNCHANGED aux
    \/ \E k \in KeyInputs, values \in {<<1>>, <<MaxTs, 0>>} :
          /\ ~ended
          /\ Cardinality(calls \cup {Delivered(k, values)}) <= MaxIOApply
          /\ Apply(k, values)
          /\ UNCHANGED aux
    \/ \E n \in 0 .. MaxIOApply : \E outcome \in [1 .. n -> Outcomes] :
          /\ ~ended
          /\ EndWith(outcome)

SpecIO == Init /\ [][NextIO]_allvars

\* C17: whatever the format calls of End return and whether or not their writes
\* succeed, End calls format once for every series at or below the threshold, in
\* ascending order of the series, and logs the number of those series as detected.
C17_EndIgnoresFormatOutcome ==
    ended =>
        /\ Len(emitted) = Cardinality(StaleSeries)
        /\ EmittedSeries = StaleSeries
        /\ \A i \in DOMAIN emitted : emitted[i][2] = series[emitted[i][1]]
        /\ \A i, j \in DOMAIN emitted : i < j => LexBefore(emitted[i][1], emitted[j][1])
        /\ logged = <<(<<Cardinality(StaleSeries), Cardinality(DOMAIN series)>>)>>
        /\ Len(written) = Cardinality(StaleSeries) - failedWrites

C17_Witness ==
    /\ ended
    /\ formatErr
    /\ failedWrites = 2
    /\ Len(written) = 1
    /\ Len(emitted) = 3
    /\ IsPrefix(emitted[3][1], written[1])
    /\ logged[1][1] = 3

====
